---- MODULE Spec2Model ----
(***************************************************************************)
(* A model of the pi_video_looper playback orchestrator (video_looper.py)  *)
(* and of the USB copy-mode file reader (usb_drive_copymode.py).           *)
(*                                                                         *)
(* File names are sequences of tokens: "." is the dot character, every     *)
(* other token is a run of ordinary characters, "*" is the glob wildcard   *)
(* (it only ever occurs in the configured password).  A directory is a     *)
(* function from the names it holds to the content of each file.           *)
(***************************************************************************)
EXTENDS Integers, Sequences, FiniteSets, TLC

VARIABLES
    config,          \* the values read from the ini file (fixed after construction)
    target,          \* the directory self._target_path: name -> content
    usb,             \* the paths under mount_path: slot -> [isdir, files]
    abs_files,       \* the files that exist at absolute paths outside those directories
    loader_png,      \* content of /home/pi/loader.png
    nodes,           \* USBDriveMounter: the attached USB partitions
    snapshot,        \* USBDriveMounter: the node set seen by the last poll_changes
    pc,              \* position of the main thread
    stack,           \* return positions of the calls in progress
    exc,             \* the exception that ended the main thread, or "none"
    paths,           \* copy_files: the roots not processed yet
    copy_mode,       \* copy_files: the local variable copy_mode
    processed,       \* copy_files: the roots handled so far: the mode applied to each
                     \* and the target library as it was before
    result,          \* the value returned by the last _build_playlist
    builder,         \* which constructor made result: "m3u", "all_files" or "none"
    alsa_hw_vol,     \* self._alsa_hw_vol, "None" until a sidecar file was read
    playlist,        \* run: the local variable playlist
    movie,           \* run: the local variable movie, as its position in playlist
    resume_index,    \* the position Playlist keeps across rebuilds for resume
    running,         \* self._running
    playbackStopped, \* self._playbackStopped
    firstStart,      \* self._firstStart
    message,         \* what _prepare_to_run_playlist announced last
    mixer,           \* the value of the last successful amixer call
    playing,         \* the player: is_playing()
    last_play,       \* the player: the arguments of the last play call
    last_stop,       \* the player: the argument of the last stop call
    starts,          \* play calls for the current movie since get_next returned it
    left,            \* the movie the loop advanced away from last, and its starts
    slept,           \* the seconds line 270 slept in the iteration of the last play
    played           \* play calls so far: "none", "before_load" (none since the
                     \* playlist in use was loaded) or "since_load"

fsVars      == <<target, usb, abs_files, loader_png>>
mounterVars == <<nodes, snapshot>>
threadVars  == <<pc, stack, exc>>
copyVars    == <<paths, copy_mode, processed>>
buildVars   == <<result, builder, alsa_hw_vol>>

loopVars    == <<playlist, movie, resume_index, running, playbackStopped, firstStart,
                 message, mixer>>
playerVars  == <<playing, last_play, last_stop, starts, left, slept, played>>

vars == <<config, fsVars, mounterVars, threadVars, copyVars, buildVars, loopVars, playerVars>>

-----------------------------------------------------------------------------
(* File names.                                                             *)

f_a       == <<"a", ".", "mp4">>
f_b2      == <<"b", "_repeat_", "2", "x", ".", "MP4">>
f_c       == <<"c", ".", "mp4">>
f_d       == <<"d", ".", "mp4">>
f_hidden  == <<".", "h", ".", "mp4">>
f_txt     == <<"n", ".", "txt">>
f_replace == <<"replace">>
f_add     == <<"add", ".", "txt">>
f_key     == <<"key">>
f_keyx    == <<"key", "x", ".", "mp4">>
f_loader  == <<"loader", ".", "png">>
f_z0      == <<"z", "_repeat_", "0", "x", ".", "mp4">>
f_a0      == <<"a", "_repeat_", "0", "x", ".", "mp4">>
f_e       == <<"e", "_repeat_", "x", ".", "mp4">>
f_vol     == <<"alsa_hw_vol">>
f_list    == <<"list", ".", "m3u">>
f_list8   == <<"list", ".", "m3u8">>
f_listU   == <<"list", ".", "M3U">>

\* The contents of the removable drives the model is run on.
RootImages ==
    { {},
      {f_c},
      {f_replace, f_c},
      {f_add},
      {f_replace, f_add, f_c, f_d},
      {f_key, f_c, f_hidden, f_txt},
      {f_keyx},
      {f_loader, f_txt} }

\* The contents of the target library the model is started with.
LibraryImages ==
    { {},
      {f_a},
      {f_a, f_b2},
      {f_a, f_c, f_hidden, f_txt} }

\* The passwords of the configurations the model is run on: none, a plain
\* word, and a word that holds a glob metacharacter.
Passwords == { <<>>, <<"key">>, <<"key", "*">> }

\* The number of source roots handed to copy_files.
MaxRoots == 2

Slots == 1 .. MaxRoots

Dir(names, content) == [n \in names |-> content]

\* What a path under mount_path can be: a mounted drive, or something that is
\* no directory.
Roots ==
    { [isdir |-> TRUE, files |-> Dir(image, "usb")] : image \in RootImages }
        \cup { [isdir |-> FALSE, files |-> Dir({}, "usb")] }

Names(dir) == DOMAIN dir

-----------------------------------------------------------------------------
(* Matching of file names.                                                 *)

\* str.lower() on one token (re.IGNORECASE compares case-folded).
Lower(t) ==
    CASE t = "MP4" -> "mp4"
      [] t = "M3U" -> "m3u"
      [] t = "_REPEAT_" -> "_repeat_"
      [] t = "X" -> "x"
      [] OTHER -> t

\* x[0] is not '.'
NotHidden(x) == Len(x) > 0 /\ x[1] # "."

\* re.search('\.({0})$'.format(self._extensions), x, flags=re.IGNORECASE)
ExtensionMatches(x, extensions) ==
    /\ Len(x) >= 2
    /\ x[Len(x) - 1] = "."
    /\ Lower(x[Len(x)]) \in { Lower(e) : e \in extensions }

Qualifies(x, extensions) == NotHidden(x) /\ ExtensionMatches(x, extensions)

RECURSIVE FnMatch(_, _)
\* fnmatch of a name against a pattern in which "*" matches any run of characters
FnMatch(pat, name) ==
    IF pat = <<>> THEN name = <<>>
    ELSE IF Head(pat) = "*"
         THEN FnMatch(Tail(pat), name) \/ (name # <<>> /\ FnMatch(pat, Tail(name)))
         ELSE name # <<>> /\ Head(name) = Head(pat) /\ FnMatch(Tail(pat), Tail(name))

\* glob.glob(dir + '/' + pat): the names of dir that pat matches; a name with a
\* leading dot is matched only by a pattern with a leading dot
Glob(dir, pat) ==
    { n \in Names(dir) :
        /\ FnMatch(pat, n)
        /\ (n # <<>> /\ n[1] = ".") => (pat # <<>> /\ pat[1] = ".") }

\* check_file_exists: (glob.glob(file + ".*") + glob.glob(file)) != []
check_file_exists(dir, file) ==
    (Glob(dir, file \o <<".", "*">>) \cup Glob(dir, file)) # {}

-----------------------------------------------------------------------------
(* Movie and Playlist (model.py) and build_playlist_m3u                     *)
(* (playlist_builders.py), as the specification describes them.             *)

Digits == <<"0", "1", "2", "3">>

IsDigits(t) == \E i \in 1 .. Len(Digits) : Digits[i] = t

\* int(s) for a string of digits
IntOf(t) == (CHOOSE i \in 1 .. Len(Digits) : Digits[i] = t) - 1

\* Movie(filename, title, repeats): repeats is kept as int(repeats)
Movie(filename, repeats) == [filename |-> filename, repeats |-> repeats, playcount |-> 0]

\* Playlist(movies): no position yet
Playlist(movies) == [movies |-> movies, index |-> 0]

-----------------------------------------------------------------------------
(* VideoLooper.__init__: lines 81-91, and a player that was never started.  *)

NoPlay == [movie |-> <<>>, loop |-> 0]

NothingLeft == [repeats |-> 0, starts |-> 0, known |-> FALSE]

LooperConstructed ==
    /\ playlist = Playlist(<<>>)
    /\ movie = 0
    /\ resume_index = 0
    /\ running = TRUE
    /\ playbackStopped = FALSE
    /\ firstStart = TRUE
    /\ message = "none"
    /\ mixer = "unset"
    /\ playing = FALSE
    /\ last_play = NoPlay
    /\ last_stop = "none"
    /\ starts = 0
    /\ left = NothingLeft
    /\ slept = 0
    /\ played = "none"

-----------------------------------------------------------------------------
(* Calls and returns of the main thread.                                   *)

Return ==
    IF stack = <<>>
    THEN pc' = "returned" /\ stack' = stack
    ELSE pc' = Head(stack) /\ stack' = Tail(stack)

Call(callee, after) == pc' = callee /\ stack' = <<after>> \o stack

\* No function of the program catches an exception: it ends the main thread.
Raise(e) == pc' = "raised" /\ exc' = e /\ stack' = <<>>

-----------------------------------------------------------------------------
(* USBDriveReaderCopy.copy_files and the copy helpers.                     *)

\* def copyfileobj(self, fsrc, fdst, callback, total, length=16 * 1024)
copyfileobj_required == {"fsrc", "fdst", "callback", "total"}

\* self.copyfileobj(fsrc, fdst, total=size): the parameters the call in copyfile binds
copyfile_passes == {"fsrc", "fdst", "total"}

\* Python raises TypeError when a call leaves a required parameter unbound.
copyfileobj_raises == (copyfileobj_required \ copyfile_passes) # {}

\* copyfile: open(dst, 'wb') creates or truncates dst, then copyfileobj fills it
copyfile(dir, x) ==
    [n \in Names(dir) \cup {x} |->
        IF n = x THEN (IF copyfileobj_raises THEN "" ELSE "usb") ELSE dir[n]]

\* lines 55-64: the mode after the trigger files of one root have been looked at
effective_mode(root, mode) ==
    LET m1 == IF check_file_exists(root, <<"replace">>) THEN "replace" ELSE mode
        m2 == IF check_file_exists(root, <<"add">>) THEN "add" ELSE m1
    IN  IF check_file_exists(root, <<"replace">>) /\ check_file_exists(root, <<"add">>)
        THEN config.copy_mode
        ELSE m2

\* lines 68-72: the target library after the deletions of mode "replace"
after_delete(dir, mode) ==
    IF mode = "replace"
    THEN [n \in { x \in Names(dir) : ~Qualifies(x, config.extensions) } |-> dir[n]]
    ELSE dir

RECURSIVE copy_all(_, _)
copy_all(dir, todo) ==
    IF todo = {} THEN dir
    ELSE LET x == CHOOSE y \in todo : TRUE
         IN  copy_all(copyfile(dir, x), todo \ {x})

\* def copy_files(self, paths): lines 43-44
copy_files_begin ==
    /\ pc = "copy_files"
    /\ copy_mode' = config.copy_mode
    /\ processed' = <<>>
    /\ pc' = "copy_files_for"
    /\ UNCHANGED <<config, fsVars, mounterVars, buildVars, stack, exc, paths, loopVars, playerVars>>

\* the for loop has run out of paths: copy_files returns
copy_files_end ==
    /\ pc = "copy_files_for"
    /\ paths = <<>>
    /\ Return
    /\ UNCHANGED <<config, fsVars, mounterVars, buildVars, exc, copyVars, loopVars, playerVars>>

\* lines 46-47: a path that is no directory is skipped
copy_files_not_a_directory ==
    /\ pc = "copy_files_for"
    /\ paths # <<>>
    /\ ~usb[Head(paths)].isdir
    /\ paths' = Tail(paths)
    /\ processed' = Append(processed, [path |-> Head(paths), mode |-> "skipped", before |-> target])
    /\ UNCHANGED <<config, fsVars, mounterVars, buildVars, threadVars, copy_mode, loopVars, playerVars>>

\* lines 50-52: the password gate
copy_files_no_password_file ==
    /\ pc = "copy_files_for"
    /\ paths # <<>>
    /\ usb[Head(paths)].isdir
    /\ config.password # <<>>
    /\ ~check_file_exists(usb[Head(paths)].files, config.password)
    /\ paths' = Tail(paths)
    /\ processed' = Append(processed, [path |-> Head(paths), mode |-> "skipped", before |-> target])
    /\ UNCHANGED <<config, fsVars, mounterVars, buildVars, threadVars, copy_mode, loopVars, playerVars>>

\* lines 54-85: one root that passed the gate
copy_files_root ==
    /\ pc = "copy_files_for"
    /\ paths # <<>>
    /\ usb[Head(paths)].isdir
    /\ config.password # <<>> => check_file_exists(usb[Head(paths)].files, config.password)
    /\ LET root    == usb[Head(paths)].files
           mode    == effective_mode(root, copy_mode)
           kept    == after_delete(target, mode)
           sources == { x \in Names(root) : Qualifies(x, config.extensions) }
           loader  == config.copyloader /\ f_loader \in Names(root)
       IN  /\ copy_mode' = mode
           /\ processed' = Append(processed, [path |-> Head(paths), mode |-> mode, before |-> target])
           /\ IF sources # {} /\ copyfileobj_raises
              THEN \* os.listdir decides which file is copied first
                   \E x \in sources :
                      /\ target' = copyfile(kept, x)
                      /\ Raise("TypeError")
                      /\ UNCHANGED <<loader_png, paths>>
              ELSE /\ target' = copy_all(kept, sources)
                   /\ IF loader
                      THEN /\ loader_png' = IF copyfileobj_raises THEN "" ELSE "usb"
                           /\ IF copyfileobj_raises
                              THEN Raise("TypeError") /\ UNCHANGED paths
                              ELSE paths' = Tail(paths) /\ UNCHANGED <<pc, stack, exc>>
                      ELSE /\ paths' = Tail(paths)
                           /\ UNCHANGED <<loader_png, pc, stack, exc>>
    /\ UNCHANGED <<config, usb, abs_files, mounterVars, buildVars, loopVars, playerVars>>

copy_files ==
    \/ copy_files_begin
    \/ copy_files_end
    \/ copy_files_not_a_directory
    \/ copy_files_no_password_file
    \/ copy_files_root

-----------------------------------------------------------------------------
(* USBDriveMounter, as the specification describes it (4.1, 4.2): the       *)
(* background monitor keeps the set of attached nodes, poll_changes         *)
(* compares it with the set seen by the previous poll.                      *)

\* The drive slots the background monitor can report.
Drives == {1}

\* The contents of the drives that get attached while the looper runs.
AttachImages == { {f_add}, {f_c}, {f_key, f_loader, f_txt} }

has_nodes == nodes # {}

\* mount_all: every attached node that is not mounted yet is mounted
mount_all == [s \in Slots |-> IF s \in nodes THEN [usb[s] EXCEPT !.isdir = TRUE] ELSE usb[s]]

\* the monitor thread sees a partition appear
Attach ==
    /\ pc \notin {"returned", "raised"}
    /\ \E s \in Drives \ nodes, image \in AttachImages :
          /\ nodes' = nodes \cup {s}
          /\ usb' = [usb EXCEPT ![s] = [isdir |-> FALSE, files |-> Dir(image, "usb")]]
    /\ UNCHANGED <<config, target, abs_files, loader_png, snapshot, threadVars, copyVars, buildVars, loopVars, playerVars>>

\* the monitor thread sees a partition go away: its mount point goes with it
Detach ==
    /\ pc \notin {"returned", "raised"}
    /\ \E s \in Drives \cap nodes :
          /\ nodes' = nodes \ {s}
          /\ usb' = [usb EXCEPT ![s] = [isdir |-> FALSE, files |-> Dir({}, "usb")]]
    /\ UNCHANGED <<config, target, abs_files, loader_png, snapshot, threadVars, copyVars, buildVars, loopVars, playerVars>>

RECURSIVE Orderings(_)
\* the sequences that list every element of S once
Orderings(S) ==
    IF S = {} THEN {<<>>}
    ELSE UNION { { <<x>> \o o : o \in Orderings(S \ {x}) } : x \in S }

\* def search_paths(self): lines 143-145
search_paths ==
    /\ pc = "search_paths"
    /\ IF has_nodes
       THEN /\ usb' = mount_all
            \* glob.glob(self._mount_path + '*') lists the mount points in any order
            /\ paths' \in Orderings({ s \in Slots : usb'[s].isdir })
            /\ Call("copy_files", "search_paths_return")
       ELSE /\ pc' = "search_paths_return"
            /\ UNCHANGED <<usb, paths, stack>>
    /\ UNCHANGED <<config, target, abs_files, loader_png, mounterVars, exc, copy_mode,
                   processed, buildVars, loopVars, playerVars>>

\* line 147: return [self._target_path]
search_paths_return ==
    /\ pc = "search_paths_return"
    /\ Return
    /\ UNCHANGED <<config, fsVars, mounterVars, exc, copyVars, buildVars, loopVars, playerVars>>

-----------------------------------------------------------------------------
(* VideoLooper._build_playlist and _build_playlist_from_all_files.          *)

\* re.search('_repeat_([0-9]*)x', x, flags=re.IGNORECASE) matches at token i
RepeatMatchAt(x, i) ==
    /\ Lower(x[i]) = "_repeat_"
    /\ \/ i + 1 <= Len(x) /\ Lower(x[i + 1]) = "x"
       \/ i + 2 <= Len(x) /\ IsDigits(x[i + 1]) /\ Lower(x[i + 2]) = "x"

\* repeatsetting.group(1) of the leftmost match: "" or a string of digits;
\* "absent" when the name does not match
RepeatSetting(x) ==
    IF \E i \in 1 .. Len(x) : RepeatMatchAt(x, i)
    THEN LET i == CHOOSE j \in 1 .. Len(x) :
                     RepeatMatchAt(x, j) /\ \A k \in 1 .. j - 1 : ~RepeatMatchAt(x, k)
         IN  IF Lower(x[i + 1]) = "x" THEN "" ELSE x[i + 1]
    ELSE "absent"

\* the order of the characters that begin a token
TokenOrder ==
    <<".", "0", "1", "2", "3", "M3U", "MP4", "_repeat_", "a", "add", "alsa_hw_vol", "b", "c", "d",
      "e", "key", "list", "loader", "m3u", "m3u8", "mp4", "n", "png", "replace", "txt",
      "x", "z">>

TokenRank(t) == CHOOSE i \in 1 .. Len(TokenOrder) : TokenOrder[i] = t

RECURSIVE NameLess(_, _)
\* a < b for two file names (str.__lt__)
NameLess(a, b) ==
    IF a = <<>> THEN b # <<>>
    ELSE IF b = <<>> THEN FALSE
    ELSE IF Head(a) = Head(b) THEN NameLess(Tail(a), Tail(b))
    ELSE TokenRank(Head(a)) < TokenRank(Head(b))

RECURSIVE SortedNames(_)
\* sorted(...) of a set of file names
SortedNames(S) ==
    IF S = {} THEN <<>>
    ELSE LET least == CHOOSE x \in S : \A y \in S \ {x} : NameLess(x, y)
         IN  <<least>> \o SortedNames(S \ {least})

\* the Movie made for file x: lines 173-179
MovieOf(x) ==
    Movie(x, IF RepeatSetting(x) = "absent" THEN 1 ELSE IntOf(RepeatSetting(x)))

\* int('') raises ValueError
MovieRaises(x) == RepeatSetting(x) = ""

\* lines 165-179 and 198: the movies of the directories listed by search_paths
ScanMovies(dir) ==
    LET names == SortedNames({ x \in Names(dir) : Qualifies(x, config.extensions) })
    IN  [i \in 1 .. Len(names) |-> MovieOf(names[i])]

\* the lines of the playlist files of the model
M3uLines == <<f_c, f_a, f_b2>>

\* build_playlist_m3u(playlist_path): one Movie per line, in the order listed
build_playlist_m3u == Playlist([i \in 1 .. Len(M3uLines) |-> MovieOf(M3uLines[i])])

\* os.path.splitext(playlist_path)[1], without the dot
Extension(x) ==
    IF Len(x) >= 3 /\ x[Len(x) - 1] = "." THEN x[Len(x)] ELSE ""

\* build_from_file with the test written "extension == '.m3u' or '.m3u8'": the
\* second operand is a non-empty string, so every resolved file is parsed
build_from_file_any_extension ==
    /\ result' = build_playlist_m3u
    /\ builder' = "m3u"
    /\ Return

\* lines 145-151: the playlist file is parsed, or the directories are scanned
build_from_file ==
    IF Extension(config.playlist_path.name) \in {"m3u", "m3u8"}
    THEN /\ result' = build_playlist_m3u
         /\ builder' = "m3u"
         /\ Return
    ELSE /\ pc' = "build_playlist_from_all_files"
         /\ UNCHANGED <<stack, result, builder>>

\* def _build_playlist(self): lines 120-129 and 152-155
build_playlist ==
    /\ pc = "build_playlist"
    /\ CASE config.playlist_path.kind \in {"unset", "empty"} ->
                /\ pc' = "build_playlist_from_all_files"
                /\ UNCHANGED <<stack, result, builder>>
         [] config.playlist_path.kind = "absolute" ->
                IF config.playlist_path.name \notin abs_files
                THEN /\ pc' = "build_playlist_from_all_files"
                     /\ UNCHANGED <<stack, result, builder>>
                ELSE build_from_file
         [] config.playlist_path.kind = "relative" ->
                /\ Call("search_paths", "build_playlist_resolve")
                /\ UNCHANGED <<result, builder>>
    /\ UNCHANGED <<config, fsVars, mounterVars, exc, copyVars, alsa_hw_vol, loopVars, playerVars>>

\* lines 131-151: the relative path is looked up under [self._target_path]
build_playlist_resolve ==
    /\ pc = "build_playlist_resolve"
    /\ IF config.playlist_path.name \in Names(target)
       THEN build_from_file
       ELSE /\ pc' = "build_playlist_from_all_files"
            /\ UNCHANGED <<stack, result, builder>>
    /\ UNCHANGED <<config, fsVars, mounterVars, exc, copyVars, alsa_hw_vol, loopVars, playerVars>>

\* def _build_playlist_from_all_files(self): line 162
build_playlist_from_all_files ==
    /\ pc = "build_playlist_from_all_files"
    /\ Call("search_paths", "scan")
    /\ UNCHANGED <<config, fsVars, mounterVars, exc, copyVars, buildVars, loopVars, playerVars>>

\* the scan with self._alsa_hw_vol set back to None when no sidecar file is found
scan_forgets_volume ==
    /\ pc = "scan"
    /\ IF \E x \in Names(target) : Qualifies(x, config.extensions) /\ MovieRaises(x)
       THEN /\ Raise("ValueError")
            /\ UNCHANGED <<result, builder, alsa_hw_vol>>
       ELSE /\ alsa_hw_vol' =
                 IF config.alsa_hw_vol_file # <<>> /\ config.alsa_hw_vol_file \in Names(target)
                 THEN target[config.alsa_hw_vol_file]
                 ELSE "None"
            /\ result' = Playlist(ScanMovies(target))
            /\ builder' = "all_files"
            /\ Return
            /\ exc' = exc
    /\ UNCHANGED <<config, fsVars, mounterVars, copyVars, loopVars, playerVars>>

\* lines 164-198: the scan of [self._target_path]
scan ==
    /\ pc = "scan"
    /\ IF \E x \in Names(target) : Qualifies(x, config.extensions) /\ MovieRaises(x)
       THEN /\ Raise("ValueError")
            /\ UNCHANGED <<result, builder, alsa_hw_vol>>
       ELSE /\ alsa_hw_vol' =
                 IF config.alsa_hw_vol_file # <<>> /\ config.alsa_hw_vol_file \in Names(target)
                 THEN target[config.alsa_hw_vol_file]
                 ELSE alsa_hw_vol
            /\ result' = Playlist(ScanMovies(target))
            /\ builder' = "all_files"
            /\ Return
            /\ exc' = exc
    /\ UNCHANGED <<config, fsVars, mounterVars, copyVars, loopVars, playerVars>>

-----------------------------------------------------------------------------
(* Playlist.get_next and the Movie counters, as the specification describes *)
(* them (3).                                                                *)

\* the positions get_next may move to: none for an empty playlist; the resumed
\* position once; any item but the current one in random mode; the next one,
\* circularly, in sequential mode
NextIndices(pl) ==
    LET n == Len(pl.movies)
    IN  IF n = 0 THEN {0}
        ELSE IF pl.index = 0 /\ config.resume_playlist /\ resume_index \in 1 .. n
             THEN {resume_index}
        ELSE IF config.is_random
             THEN { i \in 1 .. n : n = 1 \/ i # pl.index }
        ELSE { IF pl.index = 0 THEN 1 ELSE (pl.index % n) + 1 }

\* movie.was_played() on item i
was_played(pl, i) == [pl EXCEPT !.movies[i].playcount = @ + 1]

\* movie.clear_playcount() on item i
clear_playcount(pl, i) == [pl EXCEPT !.movies[i].playcount = 0]

\* the position kept for resume
Remember(i) == IF config.resume_playlist /\ i # 0 THEN i ELSE resume_index

-----------------------------------------------------------------------------
(* VideoLooper.run, quit and _set_hardware_volume.                          *)

\* movie refers to a Movie of the playlist that was just discarded
Discarded == -1

CurrentMovie == playlist.movies[movie]

\* lines 259 and 262
ShouldAdvance(m) ==
    \/ m.playcount >= m.repeats
    \/ config.can_loop_count /\ m.playcount > 0

\* LoopArgument with the test written playlist.length() >= 1
LoopArgument_not_empty(length) == IF length >= 1 THEN -1 ELSE 0

\* line 283: loop=-1 if playlist.length()==1 else None (None is 0 here)
LoopArgument(length) == IF length = 1 THEN -1 ELSE 0

\* is_changed without the call of poll_changes: true as long as a node is attached
is_changed_while_attached == has_nodes

\* is_changed without the test of has_nodes: any change of the node set counts
is_changed_without_has_nodes == nodes # snapshot

\* USBDriveReaderCopy.is_changed: lines 153-156
is_changed == nodes # snapshot /\ has_nodes

\* lines 245 and 293: playlist = self._build_playlist(), then the rest of the
\* sequence that loads a playlist; "then" is where the sequence ends
LoadPlaylist(then) ==
    /\ pc' = "build_playlist"
    /\ stack' = <<"prepare", then>>

\* def run(self): line 245
run ==
    /\ pc = "run"
    /\ LoadPlaylist("while")
    /\ UNCHANGED <<config, fsVars, mounterVars, exc, copyVars, buildVars, loopVars, playerVars>>

\* prepare without line 221: _firstStart is left as the last play set it
prepare_keeps_firstStart ==
    /\ pc = "prepare"
    /\ playlist' = result
    /\ movie' = IF movie = 0 THEN 0 ELSE Discarded
    /\ firstStart' = firstStart
    /\ message' = IF Len(result.movies) > 0 THEN "countdown" ELSE "idle"
    /\ played' = IF played = "none" THEN "none" ELSE "before_load"
    /\ pc' = "set_hardware_volume"
    /\ UNCHANGED <<config, fsVars, mounterVars, stack, exc, copyVars, buildVars,
                   resume_index, running, playbackStopped, mixer, playing, last_play,
                   last_stop, starts, left, slept>>

\* lines 245-247 and 293-295: the assignment of the new playlist and
\* _prepare_to_run_playlist
prepare ==
    /\ pc = "prepare"
    /\ playlist' = result
    /\ movie' = IF movie = 0 THEN 0 ELSE Discarded
    /\ firstStart' = TRUE
    /\ message' = IF Len(result.movies) > 0 THEN "countdown" ELSE "idle"
    /\ played' = IF played = "none" THEN "none" ELSE "before_load"
    /\ pc' = "set_hardware_volume"
    /\ UNCHANGED <<config, fsVars, mounterVars, stack, exc, copyVars, buildVars,
                   resume_index, running, playbackStopped, mixer, playing, last_play,
                   last_stop, starts, left, slept>>

\* _set_hardware_volume with the amixer call in a try block that swallows the
\* failure: the loop carries on with the volume not applied
set_hardware_volume_caught ==
    /\ pc = "set_hardware_volume"
    /\ \/ /\ alsa_hw_vol = "None"
          /\ pc' = "get_next"
          /\ UNCHANGED <<mixer, stack, exc>>
       \/ /\ alsa_hw_vol # "None"
          /\ mixer' = alsa_hw_vol
          /\ pc' = "get_next"
          /\ UNCHANGED <<stack, exc>>
       \/ /\ alsa_hw_vol # "None"
          /\ pc' = "get_next"
          /\ UNCHANGED <<mixer, stack, exc>>
    /\ UNCHANGED <<config, fsVars, mounterVars, copyVars, buildVars, playlist, movie,
                   resume_index, running, playbackStopped, firstStart, message, playerVars>>

\* def _set_hardware_volume(self): subprocess.check_call raises when amixer fails
set_hardware_volume ==
    /\ pc = "set_hardware_volume"
    /\ \/ /\ alsa_hw_vol = "None"
          /\ pc' = "get_next"
          /\ UNCHANGED <<mixer, stack, exc>>
       \/ /\ alsa_hw_vol # "None"
          /\ mixer' = alsa_hw_vol
          /\ pc' = "get_next"
          /\ UNCHANGED <<stack, exc>>
       \/ /\ alsa_hw_vol # "None"
          /\ Raise("CalledProcessError")
          /\ UNCHANGED mixer
    /\ UNCHANGED <<config, fsVars, mounterVars, copyVars, buildVars, playlist, movie,
                   resume_index, running, playbackStopped, firstStart, message, playerVars>>

\* lines 251 and 297: movie = playlist.get_next(self._is_random, self._resume_playlist)
get_next ==
    /\ pc = "get_next"
    /\ \E i \in NextIndices(playlist) :
          /\ playlist' = [playlist EXCEPT !.index = i]
          /\ movie' = i
          /\ resume_index' = Remember(i)
    /\ starts' = 0
    /\ Return
    /\ UNCHANGED <<config, fsVars, mounterVars, exc, copyVars, buildVars, running,
                   playbackStopped, firstStart, message, mixer, playing, last_play,
                   last_stop, left, slept, played>>

\* line 254: while self._running
while ==
    /\ pc = "while"
    /\ IF running THEN pc' = "is_playing" /\ stack' = stack ELSE Return
    /\ UNCHANGED <<config, fsVars, mounterVars, exc, copyVars, buildVars, loopVars, playerVars>>

\* lines 256-257 with the flag tested the wrong way round
is_playing_flag_inverted ==
    /\ pc = "is_playing"
    /\ pc' = IF ~playing /\ playbackStopped /\ movie # 0 THEN "advance" ELSE "is_changed"
    /\ UNCHANGED <<config, fsVars, mounterVars, stack, exc, copyVars, buildVars, loopVars,
                   playerVars>>

\* lines 256-257 without the test "if movie is not None"
is_playing_without_movie_test ==
    /\ pc = "is_playing"
    /\ pc' = IF ~playing /\ ~playbackStopped THEN "advance" ELSE "is_changed"
    /\ UNCHANGED <<config, fsVars, mounterVars, stack, exc, copyVars, buildVars, loopVars,
                   playerVars>>

\* lines 256-257
is_playing ==
    /\ pc = "is_playing"
    /\ pc' = IF ~playing /\ ~playbackStopped /\ movie # 0 THEN "advance" ELSE "is_changed"
    /\ UNCHANGED <<config, fsVars, mounterVars, stack, exc, copyVars, buildVars, loopVars,
                   playerVars>>

\* lines 259-266
advance ==
    /\ pc = "advance"
    /\ IF ShouldAdvance(CurrentMovie)
       THEN \E i \in NextIndices(clear_playcount(playlist, movie)) :
               /\ playlist' = was_played([clear_playcount(playlist, movie) EXCEPT !.index = i], i)
               /\ movie' = i
               /\ resume_index' = Remember(i)
               /\ left' = [repeats |-> CurrentMovie.repeats, starts |-> starts, known |-> TRUE]
               /\ starts' = 0
       ELSE /\ playlist' = was_played(playlist, movie)
            /\ UNCHANGED <<movie, resume_index, left, starts>>
    /\ pc' = "wait"
    /\ UNCHANGED <<config, fsVars, mounterVars, stack, exc, copyVars, buildVars, running,
                   playbackStopped, firstStart, message, mixer, playing, last_play, last_stop,
                   slept, played>>

\* lines 268-271: time.sleep(self._wait_time) unless this is the first start
wait ==
    /\ pc = "wait"
    /\ slept' = IF config.wait_time > 0 /\ ~firstStart THEN config.wait_time ELSE 0
    /\ firstStart' = FALSE
    /\ pc' = "play"
    /\ UNCHANGED <<config, fsVars, mounterVars, stack, exc, copyVars, buildVars, playlist,
                   movie, resume_index, running, playbackStopped, message, mixer, playing,
                   last_play, last_stop, starts, left, played>>

\* lines 273-283: self._player.play(movie, loop=..., vol=...)
play ==
    /\ pc = "play"
    /\ playing' = TRUE
    /\ last_play' = [movie |-> CurrentMovie.filename,
                     loop  |-> LoopArgument(Len(playlist.movies))]
    /\ starts' = starts + 1
    /\ played' = "since_load"
    /\ pc' = "is_changed"
    /\ UNCHANGED <<config, fsVars, mounterVars, stack, exc, copyVars, buildVars, loopVars,
                   last_stop, left, slept>>

\* line 287: if self._reader.is_changed() and not self._playbackStopped
\* (poll_changes has updated the snapshot whatever the flag says)
check_changed ==
    /\ pc = "is_changed"
    /\ snapshot' = nodes
    /\ pc' = IF is_changed /\ ~playbackStopped THEN "player_stop" ELSE "sleep"
    /\ UNCHANGED <<config, fsVars, nodes, stack, exc, copyVars, buildVars, loopVars, playerVars>>

\* lines 289-293 without the call of self._player.stop(3)
player_stop_not_called ==
    /\ pc = "player_stop"
    /\ LoadPlaylist("sleep")
    /\ UNCHANGED <<config, fsVars, mounterVars, exc, copyVars, buildVars, loopVars, playerVars>>

\* lines 289-293: self._player.stop(3), then the playlist is built again
player_stop ==
    /\ pc = "player_stop"
    /\ playing' = FALSE
    /\ last_stop' = "3"
    /\ LoadPlaylist("sleep")
    /\ UNCHANGED <<config, fsVars, mounterVars, exc, copyVars, buildVars, loopVars,
                   last_play, starts, left, slept, played>>

\* line 303: time.sleep(0.002)
sleep ==
    /\ pc = "sleep"
    /\ pc' = "while"
    /\ UNCHANGED <<config, fsVars, mounterVars, stack, exc, copyVars, buildVars, loopVars,
                   playerVars>>

\* def quit(self, shutdown=False), run by the handler of SIGTERM / SIGINT between
\* any two steps of the main thread
quit ==
    /\ pc \notin {"returned", "raised"}
    /\ playbackStopped' = TRUE
    /\ playing' = FALSE
    /\ last_stop' = "default"
    /\ running' = FALSE
    /\ UNCHANGED <<config, fsVars, mounterVars, threadVars, copyVars, buildVars, playlist,
                   movie, resume_index, firstStart, message, mixer, last_play, starts, left,
                   slept, played>>

\* the player process ends by itself: the movie is over, or the player crashed
player_ends ==
    /\ pc \notin {"returned", "raised"}
    /\ playing
    /\ playing' = FALSE
    /\ UNCHANGED <<config, fsVars, mounterVars, threadVars, copyVars, buildVars, loopVars,
                   last_play, last_stop, starts, left, slept, played>>

-----------------------------------------------------------------------------
(* copy_files on its own: every configuration of the copy mode, every      *)
(* library image and every assignment of drive images to the roots.        *)

CopyConfigs ==
    [ copy_mode  : {"replace", "add"},
      password   : Passwords,
      copyloader : BOOLEAN,
      extensions : {{"mp4"}} ]

InitCopy ==
    /\ config \in CopyConfigs
    /\ \E lib \in LibraryImages : target = Dir(lib, "lib")
    /\ usb \in [Slots -> Roots]
    /\ abs_files = {}
    /\ loader_png = "none"
    /\ nodes = { s \in Slots : usb[s].isdir }
    /\ snapshot = nodes
    /\ result = <<>>
    /\ builder = "none"
    /\ alsa_hw_vol = "None"
    /\ LooperConstructed
    /\ pc = "copy_files"
    /\ stack = <<>>
    /\ exc = "none"
    /\ \E n \in Slots : paths = [i \in 1 .. n |-> i]
    /\ copy_mode = "unset"
    /\ processed = <<>>

NextCopy == copy_files

SpecCopy == InitCopy /\ [][NextCopy]_vars

-----------------------------------------------------------------------------
(* Properties of copy_files.                                               *)

QualifyingNames(dir) == { x \in Names(dir) : Qualifies(x, config.extensions) }

\* The library after the root of entry i of processed was handled.
LibraryAfter(i) == IF i < Len(processed) THEN processed[i + 1].before ELSE target

\* The mode a root calls for when it is looked at on its own.
ModeOfRootAlone(root) ==
    LET replace == \E n \in Names(root) : n[1] = "replace" /\ (Len(n) = 1 \/ n[2] = ".")
        add     == \E n \in Names(root) : n[1] = "add" /\ (Len(n) = 1 \/ n[2] = ".")
    IN  IF replace /\ ~add THEN "replace"
        ELSE IF add /\ ~replace THEN "add"
        ELSE config.copy_mode

\* C4: every root that copy_files processes is processed with the mode that root
\* calls for on its own: the configured default unless exactly one of the trigger
\* files replace / add exists at that root, whatever earlier roots contained.
C4_ModePerRootIndependent ==
    \A i \in 1 .. Len(processed) :
        processed[i].mode # "skipped" =>
            processed[i].mode = ModeOfRootAlone(usb[processed[i].path].files)

\* C5: once a root has been processed with mode replace, the non-hidden files of
\* the target library with a supported extension are exactly those of that root,
\* each holding the data of the source file, and the other files of the target
\* library are still there.
C5_ReplaceGivesExactlySource ==
    \A i \in 1 .. Len(processed) :
        processed[i].mode = "replace" =>
            LET root   == usb[processed[i].path].files
                before == processed[i].before
                after  == LibraryAfter(i)
            IN  /\ QualifyingNames(after) = QualifyingNames(root)
                /\ \A x \in QualifyingNames(root) : after[x] = "usb"
                /\ \A x \in Names(before) \ QualifyingNames(before) :
                      x \in Names(after) /\ after[x] = before[x]

\* C6: once a root has been processed with mode add, every file the target
\* library held before is still present, and every non-hidden source file with a
\* supported extension is present under its name with the data of the source.
C6_AddKeepsAndCopies ==
    \A i \in 1 .. Len(processed) :
        processed[i].mode = "add" =>
            LET root   == usb[processed[i].path].files
                before == processed[i].before
                after  == LibraryAfter(i)
            IN  /\ Names(before) \subseteq Names(after)
                /\ \A x \in QualifyingNames(root) : x \in Names(after) /\ after[x] = "usb"

\* A file named <password> or <password>.<any extension> exists in root.
HasPasswordFile(root, password) ==
    \E n \in Names(root) :
        \/ n = password
        \/ /\ Len(n) > Len(password)
           /\ SubSeq(n, 1, Len(password) + 1) = password \o <<".">>

\* C7: with a non-empty password, a root that holds no file named <password> or
\* <password>.<any extension> is skipped: it is not processed and leaves the
\* target library as it was.
C7_GateSkipsRootWithoutPasswordFile ==
    \A i \in 1 .. Len(processed) :
        LET root == usb[processed[i].path].files
        IN  (config.password # <<>> /\ ~HasPasswordFile(root, config.password)) =>
                /\ processed[i].mode = "skipped"
                /\ LibraryAfter(i) = processed[i].before

\* C8: no failure while copying or deleting one file leaves copy_files as an
\* exception: copy_files always returns normally.
C8_CopyFailureIsCaught == exc = "none"

-----------------------------------------------------------------------------
(* _build_playlist on its own: every kind of configured playlist path,     *)
(* with drives attached or not.                                            *)

PlaylistPaths ==
    { [kind |-> "unset", name |-> <<>>], [kind |-> "empty", name |-> <<>>] }
        \cup [ kind : {"absolute", "relative"}, name : {f_list, f_list8, f_listU, f_txt} ]

BuildLibraries ==
    { {},
      {f_a, f_b2, f_hidden},
      {f_a, f_c, f_list, f_txt, f_vol},
      {f_b2, f_a, f_list8, f_listU},
      {f_a, f_z0, f_vol},
      {f_a, f_e} }

BuildConfigs ==
    [ copy_mode        : {"replace", "add"},
      password         : {<<>>, <<"key">>},
      copyloader       : {TRUE},
      extensions       : {{"mp4"}},
      playlist_path    : PlaylistPaths,
      alsa_hw_vol_file : {<<>>, f_vol} ]

\* No drive is mounted when the program starts; those attached are in nodes.
InitDrives ==
    /\ nodes \in SUBSET Drives
    /\ \E images \in [Slots -> AttachImages] :
          usb = [s \in Slots |->
                    [isdir |-> FALSE,
                     files |-> IF s \in nodes THEN Dir(images[s], "usb") ELSE Dir({}, "usb")]]
    /\ snapshot = nodes

InitBuild ==
    /\ config \in BuildConfigs
    /\ \E lib \in BuildLibraries : target = Dir(lib, "lib")
    /\ abs_files \in { {}, {f_list, f_list8, f_listU, f_txt} }
    /\ InitDrives
    /\ loader_png = "none"
    /\ result = <<>>
    /\ builder = "none"
    /\ alsa_hw_vol = "None"
    /\ LooperConstructed
    /\ pc = "build_playlist"
    /\ stack = <<>>
    /\ exc = "none"
    /\ paths = <<>>
    /\ copy_mode = "unset"
    /\ processed = <<>>

NextBuild ==
    \/ build_playlist
    \/ build_playlist_resolve
    \/ build_playlist_from_all_files
    \/ scan
    \/ search_paths
    \/ search_paths_return
    \/ copy_files
    \/ Attach
    \/ Detach

SpecBuild == InitBuild /\ [][NextBuild]_vars

\* The configured playlist path names an existing file.
PlaylistFileResolves ==
    \/ config.playlist_path.kind = "absolute" /\ config.playlist_path.name \in abs_files
    \/ config.playlist_path.kind = "relative" /\ config.playlist_path.name \in Names(target)

PlaylistFileUsable ==
    PlaylistFileResolves /\ Extension(config.playlist_path.name) \in {"m3u", "m3u8"}

\* C9: with a playlist path configured, a path that does not resolve or that has
\* another extension than .m3u / .m3u8 never ends the build with an error of its
\* own: the build returns the playlist of the full directory scan; the playlist
\* file is parsed only when the path resolves to a .m3u / .m3u8 file.
C9_FallbackToDirectoryScan ==
    /\ exc \in {"none", "TypeError", "ValueError"}
    /\ pc = "returned" =>
          IF PlaylistFileUsable
          THEN builder = "m3u" /\ result = build_playlist_m3u
          ELSE builder = "all_files" /\ result = Playlist(ScanMovies(target))

\* a relative path that is found nowhere, and the scan found movies
C9_Witness ==
    /\ pc = "returned"
    /\ config.playlist_path.kind = "relative"
    /\ ~PlaylistFileResolves
    /\ builder = "all_files"
    /\ Len(result.movies) = 2

-----------------------------------------------------------------------------
(* The looper as a whole: run() on the main thread, the signal handler,    *)
(* the player process and the USB monitor.                                 *)

RunLibraries ==
    { {},
      {f_a},
      {f_a, f_b2, f_vol},
      {f_a, f_z0, f_list},
      {f_a0, f_c} }

RunConfigs ==
    { [ copy_mode        |-> c.copy_mode,
        password         |-> c.password,
        copyloader       |-> c.copyloader,
        extensions       |-> {"mp4"},
        playlist_path    |-> p,
        alsa_hw_vol_file |-> f_vol,
        is_random        |-> r[1],
        resume_playlist  |-> r[2],
        wait_time        |-> w,
        can_loop_count   |-> l ] :
        c \in { [copy_mode |-> "replace", password |-> <<>>, copyloader |-> FALSE],
                [copy_mode |-> "add", password |-> <<"key">>, copyloader |-> TRUE] },
        p \in { [kind |-> "unset", name |-> <<>>], [kind |-> "relative", name |-> f_list] },
        r \in BOOLEAN \X BOOLEAN,
        w \in {0, 1},
        l \in BOOLEAN }

Init ==
    /\ config \in RunConfigs
    /\ \E lib \in RunLibraries : target = Dir(lib, "lib")
    /\ abs_files = {}
    /\ nodes = {}
    /\ snapshot = {}
    /\ usb = [s \in Slots |-> [isdir |-> FALSE, files |-> Dir({}, "usb")]]
    /\ loader_png = "none"
    /\ result = <<>>
    /\ builder = "none"
    /\ alsa_hw_vol = "None"
    /\ LooperConstructed
    /\ pc = "run"
    /\ stack = <<>>
    /\ exc = "none"
    /\ paths = <<>>
    /\ copy_mode = "unset"
    /\ processed = <<>>

MainThread ==
    \/ run
    \/ prepare
    \/ set_hardware_volume
    \/ get_next
    \/ while
    \/ is_playing
    \/ advance
    \/ wait
    \/ play
    \/ check_changed
    \/ player_stop
    \/ sleep
    \/ build_playlist
    \/ build_playlist_resolve
    \/ build_playlist_from_all_files
    \/ scan
    \/ search_paths
    \/ search_paths_return
    \/ copy_files

Next ==
    \/ MainThread
    \/ quit
    \/ player_ends
    \/ Attach
    \/ Detach

Spec == Init /\ [][Next]_vars

-----------------------------------------------------------------------------
(* Properties of the run loop.                                             *)

\* C1: with a player that cannot count loops, a movie with repeats = N has been
\* started exactly N times in a row when the loop advances away from it.
C1_StartedRepeatsTimes ==
    (left.known /\ ~config.can_loop_count) => left.starts = left.repeats

\* the call stack of a rebuild that a reported change started (line 293 to 297)
Rebuilding == stack # <<>> /\ stack[Len(stack)] = "sleep"

\* C2: a change reported by is_changed() is followed, in every state of the
\* orchestrator (playback stopped or not), by player.stop(3) and a rebuild of the
\* playlist, and the rebuild is carried through: it does not end in an exception
\* before the volume is applied and the first movie is fetched.
C2_EveryReportedChangeRebuilds ==
    [][/\ (pc = "is_changed" /\ pc' # pc /\ is_changed) => pc' = "player_stop"
       /\ (pc = "player_stop" /\ pc' # pc) =>
             /\ last_stop' = "3" /\ ~playing'
             /\ pc' = "build_playlist"
       /\ Rebuilding => pc' # "raised"
       /\ (pc = "get_next" /\ pc' = "sleep") =>
             /\ playlist'.movies = result.movies
             /\ movie' = playlist'.index
      ]_vars

\* C3: in every state after quit() has run, the player is not playing.
C3_NotPlayingAfterQuit == playbackStopped => ~playing

\* C10: a play call carries loop = -1 exactly when the playlist holds one item
\* at the time of the call; for any other length no loop request is passed.
C10_InfiniteLoopIffSingleItem ==
    [][(pc = "play" /\ pc' # pc) =>
          /\ last_play'.loop = -1 <=> Len(playlist.movies) = 1
          /\ last_play'.loop # -1 => last_play'.loop = 0
          /\ last_play'.movie = playlist.movies[movie].filename]_vars

\* a single-item playlist is playing with loop = -1
C10_Witness ==
    /\ playing
    /\ last_play.loop = -1
    /\ Len(playlist.movies) = 1

-----------------------------------------------------------------------------
(* The wait between items.                                                 *)

\* C11 as stated: with wait_time > 0, the first play call of a run() is not
\* preceded by the sleep of wait_time seconds and every other play call is.
C11_WaitBeforeEveryPlayButFirstOfSession ==
    [][(pc = "play" /\ pc' # pc /\ config.wait_time > 0) =>
          slept = (IF played = "none" THEN 0 ELSE config.wait_time)]_vars

\* C11 as amended: with wait_time > 0, the first play call after each load of a
\* playlist (the build at the start of run() and every rebuild) is not preceded
\* by the sleep, and every other play call is preceded by a sleep of wait_time
\* seconds.
C11_WaitBeforeEveryPlayButFirstOfPlaylist ==
    [][(pc = "play" /\ pc' # pc /\ config.wait_time > 0) =>
          slept = (IF played = "since_load" THEN config.wait_time ELSE 0)]_vars

\* the first play call after a rebuild is about to be made without the wait
C11_Witness ==
    /\ pc = "play"
    /\ config.wait_time > 0
    /\ played = "before_load" /\ last_stop = "3"
    /\ slept = 0

-----------------------------------------------------------------------------
(* The play counters.                                                      *)

\* C12: in every state of the run loop, for every movie the directory scan built,
\* the playcount of the current movie is at most its repeats and the playcount
\* of every movie the loop has advanced away from is 0.
C12_PlaycountWithinRepeats ==
    config.playlist_path.kind = "unset" =>
        \A i \in 1 .. Len(playlist.movies) :
            IF i = movie
            THEN playlist.movies[i].playcount <= playlist.movies[i].repeats
            ELSE playlist.movies[i].playcount = 0

-----------------------------------------------------------------------------
(* The hardware volume.                                                    *)

\* C13: when a hardware volume was discovered and the amixer call fails, at the
\* start or after a rebuild, the failure leaves run() as CalledProcessError: the
\* main thread has ended, the player is not playing and no play call follows.
\* When no hardware volume was discovered the mixer is not invoked.
C13_MixerFailureIsFatal ==
    /\ [][(pc = "set_hardware_volume" /\ pc' # pc) =>
             IF alsa_hw_vol = "None"
             THEN mixer' = mixer /\ exc' = "none" /\ pc' = "get_next"
             ELSE \/ mixer' = alsa_hw_vol /\ exc' = "none" /\ pc' = "get_next"
                  \/ mixer' = mixer /\ exc' = "CalledProcessError" /\ pc' = "raised"]_vars
    /\ [][exc = "CalledProcessError" => pc' = "raised" /\ played' = played /\ ~playing']_vars
    /\ [](exc = "CalledProcessError" => pc = "raised" /\ ~playing)

\* the amixer call failed after a rebuild, movies having been played before
C13_Witness ==
    /\ exc = "CalledProcessError"
    /\ last_stop = "3"
    /\ played = "before_load"
    /\ mixer # "unset"

-----------------------------------------------------------------------------
(* Idle and countdown.                                                     *)

\* the positions of the main thread inside the while loop of run()
InLoop == pc \in {"while", "is_playing", "advance", "wait", "play", "is_changed", "sleep"}

\* C14: after the first build and after every rebuild, an empty playlist gives
\* the idle message, no current movie and no play call as long as that playlist
\* is in use; a playlist that is not empty gives the countdown before its first
\* play, and the loop, finding the player idle and playback not stopped, goes
\* on to the play call.
C14_IdleOrCountdownThenPlay ==
    /\ [][(pc = "prepare" /\ pc' # pc) =>
             /\ ~playing'
             /\ message' = (IF playlist'.movies = <<>> THEN "idle" ELSE "countdown")]_vars
    /\ [][(pc = "get_next" /\ pc' # pc) => (movie' = 0 <=> playlist'.movies = <<>>)]_vars
    /\ []((InLoop /\ playlist.movies = <<>>) =>
             /\ message = "idle"
             /\ movie = 0
             /\ ~playing
             /\ pc \notin {"advance", "wait", "play"})
    /\ []((pc = "play" /\ played # "since_load") => message = "countdown")
    /\ [][/\ (pc = "is_playing" /\ pc' # pc /\ playlist.movies # <<>>
                 /\ ~playing /\ ~playbackStopped) => pc' = "advance"
          /\ (pc = "advance" /\ pc' # pc) => pc' = "wait"
          /\ (pc = "wait" /\ pc' # pc) => pc' = "play"
          /\ (pc = "play" /\ pc' # pc) => playing' /\ played' = "since_load"]_vars

\* a rebuild left the loop idle with an empty playlist
C14_Witness ==
    /\ pc = "is_playing"
    /\ playlist.movies = <<>>
    /\ last_stop = "3"
    /\ message = "idle"
    /\ nodes # {}

-----------------------------------------------------------------------------
(* The storage-change signal.                                              *)

\* C15: every poll records the node set it saw, and nothing else does; a poll
\* reports a change, and the loop starts a rebuild, only when the node set
\* differs from the one the previous poll saw: a second poll with no change in
\* between reports nothing, and there is at most one rebuild per change.
C15_ChangeReportedOnce ==
    /\ [][(pc = "is_changed" /\ pc' # pc) =>
             /\ snapshot' = nodes
             /\ pc' = "player_stop" => nodes # snapshot]_vars
    /\ [][snapshot' # snapshot => pc = "is_changed"]_vars
    /\ [][(pc' = "player_stop" /\ pc' # pc) => pc = "is_changed"]_vars

\* after a rebuild the loop has played again and polled again, the drive still
\* attached: no second rebuild
C15_Witness ==
    /\ pc = "sleep"
    /\ nodes # {} /\ snapshot = nodes
    /\ last_stop = "3"
    /\ played = "since_load" /\ playing

-----------------------------------------------------------------------------
(* AlsaConfig.parse_hw_device_tuple and the use _set_hardware_volume makes *)
(* of its result.  The configured string and the card names are sequences  *)
(* of characters.                                                          *)

MaxLen == 3

Chars == {"0", "1", ",", "h", "d"}

Strings == UNION { [1 .. n -> Chars] : n \in 0 .. MaxLen }

\* pyalsa.alsacard.card_list() with card_get_name: card number i - 1 has name
\* CardLists[k][i]
CardLists ==
    { <<>>,
      << <<"h">> >>,
      << <<"h", "d">>, <<"d">> >>,
      << <<"d">>, <<"h">>, <<"d">> >>,
      << <<"0", ",", "1">>, <<"1">> >> }

\* \d+
AllDigits(s) == s # <<>> /\ \A i \in 1 .. Len(s) : s[i] \in {"0", "1"}

RECURSIVE IntOfChars(_)
\* int(s) for a string of digits
IntOfChars(s) ==
    IF s = <<>> THEN 0
    ELSE 10 * IntOfChars(SubSeq(s, 1, Len(s) - 1)) + (IF s[Len(s)] = "1" THEN 1 ELSE 0)

\* re.match("^(\d+),(\d+)$", s): the position of the comma, 0 when s does not match
CommaOfPair(s) ==
    IF \E i \in 1 .. Len(s) :
          s[i] = "," /\ AllDigits(SubSeq(s, 1, i - 1)) /\ AllDigits(SubSeq(s, i + 1, Len(s)))
    THEN CHOOSE i \in 1 .. Len(s) :
          s[i] = "," /\ AllDigits(SubSeq(s, 1, i - 1)) /\ AllDigits(SubSeq(s, i + 1, Len(s)))
    ELSE 0

\* def parse_device_name(searchName): the number of the first card of that name,
\* -1 for None
parse_device_name(cards, searchName) ==
    IF \E i \in 1 .. Len(cards) : cards[i] = searchName
    THEN (CHOOSE i \in 1 .. Len(cards) :
             cards[i] = searchName /\ \A j \in 1 .. i - 1 : cards[j] # searchName) - 1
    ELSE -1

\* def parse_hw_device_tuple(s): the value returned; (m) is m itself, an int
parse_hw_device_tuple_value(cards, s) ==
    IF s = <<>> THEN [type |-> "NoneType"]
    ELSE IF CommaOfPair(s) # 0
         THEN [type  |-> "tuple",
               value |-> << IntOfChars(SubSeq(s, 1, CommaOfPair(s) - 1)),
                            IntOfChars(SubSeq(s, CommaOfPair(s) + 1, Len(s))) >>]
    ELSE IF parse_device_name(cards, s) # -1
         THEN [type |-> "int", value |-> parse_device_name(cards, s)]
    ELSE [type |-> "RuntimeError"]

\* line 77 of video_looper.py: self._alsa_hw_device = AlsaConfig.parse_hw_device_tuple(...)
parse_hw_device_tuple ==
    /\ pc = "parse_hw_device_tuple"
    /\ LET v == parse_hw_device_tuple_value(config.cards, config.hw_device)
       IN  IF v.type = "RuntimeError"
           THEN Raise("RuntimeError") /\ UNCHANGED result
           ELSE /\ result' = v
                /\ pc' = "amixer_device"
                /\ UNCHANGED <<stack, exc>>
    /\ UNCHANGED <<config, fsVars, mounterVars, copyVars, builder, alsa_hw_vol, loopVars,
                   playerVars>>

\* lines 235-237: cmd.extend(('-c', str(self._alsa_hw_device[0]))); subscripting
\* an int raises TypeError.  mixer holds the card number given to amixer.
amixer_device ==
    /\ pc = "amixer_device"
    /\ CASE result.type = "NoneType" -> Return /\ UNCHANGED <<mixer, exc>>
         [] result.type = "tuple"    -> Return /\ mixer' = result.value[1] /\ UNCHANGED exc
         [] result.type = "int"      -> Raise("TypeError") /\ UNCHANGED mixer
    /\ UNCHANGED <<config, fsVars, mounterVars, copyVars, buildVars, playlist, movie,
                   resume_index, running, playbackStopped, firstStart, message, playerVars>>

InitAlsa ==
    /\ config \in [hw_device : Strings, cards : CardLists]
    /\ target = Dir({}, "lib")
    /\ usb = [s \in Slots |-> [isdir |-> FALSE, files |-> Dir({}, "usb")]]
    /\ abs_files = {}
    /\ loader_png = "none"
    /\ nodes = {}
    /\ snapshot = {}
    /\ result = <<>>
    /\ builder = "none"
    /\ alsa_hw_vol = "None"
    /\ LooperConstructed
    /\ pc = "parse_hw_device_tuple"
    /\ stack = <<>>
    /\ exc = "none"
    /\ paths = <<>>
    /\ copy_mode = "unset"
    /\ processed = <<>>

NextAlsa ==
    \/ parse_hw_device_tuple
    \/ amixer_device

SpecAlsa == InitAlsa /\ [][NextAlsa]_vars

\* C16: for a non-empty s, parse_hw_device_tuple raises the configuration error
\* when s is neither "N,N" nor the name of a card, and otherwise returns a pair:
\* (N, N) for the literal form, a (card, device) pair for a card name, whose
\* element 0 the caller can take as the card number.
C16_PairOrError ==
    config.hw_device # <<>> =>
        /\ pc \in {"amixer_device", "returned"} =>
              /\ result.type = "tuple"
              /\ Len(result.value) = 2
              /\ CommaOfPair(config.hw_device) = 0 =>
                    /\ result.value[1] + 1 \in 1 .. Len(config.cards)
                    /\ config.cards[result.value[1] + 1] = config.hw_device
        /\ pc = "returned" => mixer = result.value[1]
        /\ pc = "raised" =>
              /\ exc = "RuntimeError"
              /\ CommaOfPair(config.hw_device) = 0
              /\ \A i \in 1 .. Len(config.cards) : config.cards[i] # config.hw_device

-----------------------------------------------------------------------------
(* Shutdown.                                                               *)

\* C17: once quit() has run, the loop leaves at its next test of _running and
\* run() returns, and until then the orchestrator starts no rebuild: no
\* player.stop(3) followed by _build_playlist.
C17_NoRebuildAfterQuit ==
    [][playbackStopped =>
          /\ (pc = "while" /\ pc' # pc) => pc' = "returned"
          /\ ~(pc = "player_stop" /\ pc' = "build_playlist")]_vars

-----------------------------------------------------------------------------
(* Repeat counts of the directory scan.                                    *)

\* C18: the directory scan gives every file named name_repeat_Nx.ext a Movie with
\* repeats = N, every other file a Movie with repeats = 1, and repeats is a
\* positive integer in both cases.
C18_RepeatsFromName ==
    (pc = "returned" /\ builder = "all_files") =>
        \A i \in 1 .. Len(result.movies) :
            LET m == result.movies[i]
                N == RepeatSetting(m.filename)
            IN  /\ m.repeats >= 1
                /\ m.repeats = (IF IsDigits(N) THEN IntOf(N) ELSE 1)

-----------------------------------------------------------------------------
(* The order of play.                                                      *)

\* sequential order, no resume, the playlist made by the directory scan
SequentialScan ==
    /\ ~config.is_random
    /\ ~config.resume_playlist
    /\ config.playlist_path.kind = "unset"

\* C19: in sequential mode without resume the playlist of the scan is in sorted
\* path order, get_next gives item 1 of a fresh playlist, the first movie played
\* from a fresh playlist is item 1, and every later play is of the same item
\* again or of the next one in order, item 1 following the last: none is skipped.
C19_PlayedInSortedOrder ==
    /\ []((SequentialScan /\ InLoop) =>
             \A i, j \in 1 .. Len(playlist.movies) :
                 i < j => NameLess(playlist.movies[i].filename, playlist.movies[j].filename))
    /\ [][(SequentialScan /\ pc = "get_next" /\ pc' # pc /\ playlist.movies # <<>>) =>
             movie' = 1]_vars
    /\ [][(SequentialScan /\ pc = "advance" /\ pc' # pc) =>
             /\ firstStart => movie' = 1
             /\ movie' \in {movie, (movie % Len(playlist.movies)) + 1}]_vars
    /\ [][(SequentialScan /\ pc = "play" /\ pc' # pc) =>
             last_play'.movie = playlist.movies[movie].filename]_vars

-----------------------------------------------------------------------------
(* Playback keeps going.                                                   *)

\* the loop is at line 256, the player reports not-playing, the playlist is not
\* empty and quit has not been requested
PlayerReportsIdle ==
    /\ pc = "is_playing"
    /\ ~playing
    /\ ~playbackStopped
    /\ playlist.movies # <<>>

\* C20: when the player reports not-playing (the item finished or the player
\* crashed), the playlist is not empty and quit has not been requested, the same
\* loop iteration goes through the advance and the wait to a play call of the
\* current movie, whatever happens in between (quit included): every step the
\* main thread takes from there leads to the play call, after which the player
\* is playing.
C20_IdlePlayerIsRestarted ==
    /\ [][/\ (PlayerReportsIdle /\ pc' # pc) => pc' = "advance"
          /\ (pc = "advance" /\ pc' # pc) => pc' = "wait" /\ movie' \in 1 .. Len(playlist.movies)
          /\ (pc = "wait" /\ pc' # pc) => pc' = "play"
          /\ (pc = "play" /\ pc' # pc) =>
                /\ playing'
                /\ last_play'.movie = playlist.movies[movie].filename
                /\ pc' = "is_changed"]_vars
    /\ [](pc \in {"advance", "wait", "play"} =>
             /\ playlist.movies # <<>>
             /\ movie \in 1 .. Len(playlist.movies)
             /\ exc = "none")

\* the player stopped by itself and the loop started a movie again
C20_Witness ==
    /\ pc = "is_changed"
    /\ playing
    /\ left.known /\ left.starts >= 1
    /\ ~playbackStopped

-----------------------------------------------------------------------------
(* The order of the steps of a rebuild.                                    *)

\* the build of the playlist is in progress: its return position is on the stack
Building == \E i \in 1 .. Len(stack) : stack[i] = "prepare"

\* C21: a rebuild begins with player.stop(3); then comes the build of the
\* playlist, in which alone the target library is changed (deletions and
\* copies of copy_files); then the countdown or idle message, the hardware
\* volume and the fetch of the next movie.  No play call is made and the player
\* does not play from the stop to the fetch.
C21_RebuildOrder ==
    /\ [][(~Rebuilding /\ Rebuilding') =>
             /\ pc = "player_stop"
             /\ last_stop' = "3" /\ ~playing'
             /\ pc' = "build_playlist"
             /\ target' = target]_vars
    /\ [][(Rebuilding /\ pc' # pc) =>
             /\ pc' = "prepare" => Building /\ ~Building'
             /\ pc = "prepare" => pc' = "set_hardware_volume" /\ message' # "none"
             /\ pc = "set_hardware_volume" => pc' \in {"get_next", "raised"}
             /\ pc = "get_next" => pc' = "sleep" /\ ~Rebuilding'
             /\ pc' = "sleep" => pc = "get_next"]_vars
    /\ [][Rebuilding => ~playing' /\ pc # "play" /\ pc' # "play" /\ last_play' = last_play]_vars
    /\ [][target' # target => pc = "copy_files_for" /\ Building]_vars
    /\ [][(target' # target /\ played # "none") => Rebuilding /\ last_stop \in {"3", "default"}]_vars

\* a rebuild has deleted the movies of the library after the player was stopped
C21_Witness ==
    /\ Rebuilding
    /\ pc = "copy_files_for"
    /\ processed # <<>>
    /\ target # processed[1].before
    /\ played = "since_load"
    /\ last_stop = "3"

-----------------------------------------------------------------------------
(* The removal of the last drive.                                          *)

\* C22: a poll made while no node is attached reports no change, whatever the
\* node set was at the poll before: the loop goes on to its sleep without
\* stopping the player or building a playlist, and the poll has taken note of
\* the empty node set, so that a later poll of the still empty set compares
\* equal sets.
C22_NoChangeWithoutNodes ==
    /\ [][(pc = "is_changed" /\ pc' # pc /\ nodes = {}) =>
             /\ pc' = "sleep"
             /\ snapshot' = {}
             /\ stack' = stack
             /\ playing' = playing /\ last_stop' = last_stop
             /\ playlist' = playlist /\ movie' = movie
             /\ target' = target]_vars
    /\ [][(pc = "is_changed" /\ nodes = {} /\ snapshot = {}) => snapshot' = {}]_vars

\* the removal of a drive from which the library was rebuilt has been polled
\* and the movie of the library goes on playing
C22_Witness ==
    /\ pc = "sleep"
    /\ nodes = {} /\ snapshot = {}
    /\ last_stop = "3"
    /\ playing
    /\ played = "since_load"

-----------------------------------------------------------------------------
(* The hardware volume over several builds: the looper with a library      *)
(* directory whose sidecar file and playlist file are written and removed  *)
(* from outside while the looper runs.                                     *)

\* what the first line of a sidecar file written while the looper runs can be
Volumes == {"80%"}

\* os.path.exists(alsa_hw_vol_file_path) becomes true, or readline() gives
\* another value: the sidecar file is written into the library directory
sidecar_written ==
    /\ pc \notin {"run", "returned", "raised"}
    /\ \E v \in Volumes :
          /\ IF f_vol \in Names(target) THEN target[f_vol] # v ELSE TRUE
          /\ target' = (f_vol :> v) @@ target
    /\ UNCHANGED <<config, usb, abs_files, loader_png, mounterVars, threadVars, copyVars,
                   buildVars, loopVars, playerVars>>

\* os.path.exists(alsa_hw_vol_file_path) becomes false: the sidecar file is
\* removed from the library directory
sidecar_removed ==
    /\ pc \notin {"run", "returned", "raised"}
    /\ f_vol \in Names(target)
    /\ target' = [n \in Names(target) \ {f_vol} |-> target[n]]
    /\ UNCHANGED <<config, usb, abs_files, loader_png, mounterVars, threadVars, copyVars,
                   buildVars, loopVars, playerVars>>

\* the configured playlist file comes to exist under the library directory
playlist_written ==
    /\ pc \notin {"run", "returned", "raised"}
    /\ config.playlist_path.kind = "relative"
    /\ config.playlist_path.name \notin Names(target)
    /\ target' = (config.playlist_path.name :> "lib") @@ target
    /\ UNCHANGED <<config, usb, abs_files, loader_png, mounterVars, threadVars, copyVars,
                   buildVars, loopVars, playerVars>>

VolumeLibraries == { {f_a}, {f_a, f_vol} }

VolumeConfigs ==
    { c \in RunConfigs :
        /\ c.playlist_path.kind = "relative"
        /\ ~c.is_random /\ ~c.resume_playlist /\ c.wait_time = 1 /\ c.can_loop_count }

InitVolume ==
    /\ config \in VolumeConfigs
    /\ \E lib \in VolumeLibraries : target = Dir(lib, "lib")
    /\ abs_files = {}
    /\ nodes = {}
    /\ snapshot = {}
    /\ usb = [s \in Slots |-> [isdir |-> FALSE, files |-> Dir({}, "usb")]]
    /\ loader_png = "none"
    /\ result = <<>>
    /\ builder = "none"
    /\ alsa_hw_vol = "None"
    /\ LooperConstructed
    /\ pc = "run"
    /\ stack = <<>>
    /\ exc = "none"
    /\ paths = <<>>
    /\ copy_mode = "unset"
    /\ processed = <<>>

NextVolume ==
    \/ Next
    \/ sidecar_written
    \/ sidecar_removed
    \/ playlist_written

SpecVolume == InitVolume /\ [][NextVolume]_vars

\* C23: the hardware volume is set by a directory scan that finds the sidecar
\* file and by nothing else, so that once it has a value it is never None again
\* and always is the value of the latest scan that found the file.  Every build
\* that returns a playlist is followed by _set_hardware_volume, which calls the
\* mixer with that value, whatever the build was (a scan that found no sidecar
\* file, or a playlist file read without a scan), and does not call it as long
\* as no value was found.
C23_VolumeIsKept ==
    /\ [][alsa_hw_vol # "None" => alsa_hw_vol' # "None"]_vars
    /\ [][alsa_hw_vol' # alsa_hw_vol =>
             /\ pc = "scan" /\ pc' # "raised"
             /\ config.alsa_hw_vol_file \in Names(target)
             /\ alsa_hw_vol' = target[config.alsa_hw_vol_file]]_vars
    /\ [][(pc = "prepare" /\ pc' # pc) => pc' = "set_hardware_volume"]_vars
    /\ [][(pc = "set_hardware_volume" /\ pc' # pc) =>
             IF alsa_hw_vol = "None"
             THEN mixer' = mixer /\ pc' = "get_next"
             ELSE \/ mixer' = alsa_hw_vol /\ pc' = "get_next"
                  \/ exc' = "CalledProcessError" /\ pc' = "raised"]_vars
    /\ [][mixer' # mixer => pc = "set_hardware_volume"]_vars
    /\ [](alsa_hw_vol = "None" => mixer = "unset")

\* a rebuild that read a playlist file, without a scan, has called the mixer
\* with the value that an earlier scan found, the sidecar file being gone
C23_Witness ==
    /\ pc = "get_next"
    /\ stack = <<"sleep">>
    /\ builder = "m3u"
    /\ alsa_hw_vol \in Volumes
    /\ mixer = alsa_hw_vol
    /\ f_vol \notin Names(target)

-----------------------------------------------------------------------------
(* Replace mode with a root that holds no media.                           *)

\* the step of copy_files that handles, in mode replace, a root that passed the
\* gate and holds no file that qualifies
ReplaceWithoutMedia ==
    /\ pc = "copy_files_for"
    /\ Len(processed') = Len(processed) + 1
    /\ processed'[Len(processed')].mode = "replace"
    /\ QualifyingNames(usb[Head(paths)].files) = {}

\* the last root that copy_files handled was handled in mode replace and left
\* no file that qualifies in the library
IngestedWithoutMedia ==
    /\ processed # <<>>
    /\ processed[Len(processed)].mode = "replace"
    /\ QualifyingNames(target) = {}

\* C24: in mode replace a root that passed the gate and holds no qualifying
\* file still has every qualifying file of the target library deleted;
\* copy_files goes on to its next root or returns, and the directory scan that
\* follows such an ingestion returns the empty playlist.
C24_ReplaceWithoutMediaEmptiesLibrary ==
    /\ [][ReplaceWithoutMedia =>
             /\ QualifyingNames(target') = {}
             /\ \A x \in Names(target) \ QualifyingNames(target) :
                   x \in Names(target') /\ target'[x] = target[x]
             /\ pc' = "copy_files_for" /\ exc' = "none"]_vars
    /\ [][(pc = "scan" /\ pc' # pc /\ IngestedWithoutMedia) =>
             pc' = "returned" /\ result'.movies = <<>>]_vars

====
